---- MODULE Spec2Model ----
(***************************************************************************)
(* Click-to-move on a tile map: examples/post-1/05-physics/map-game.js.    *)
(*                                                                         *)
(* The scene's own code (create, update, game.checkCollision,              *)
(* game.getTileID, game.handleClick, game.changeTile, game.moveCharacter)  *)
(* is modelled from the source.  The grid path finder behind game.finder   *)
(* and the tile layer behind game.map / game.worldLayer are collaborators  *)
(* whose code is not part of the source file; they are modelled from       *)
(* sections 4.1, 4.2, 5 and 6 of the specification and are marked so in    *)
(* the comments below.                                                     *)
(***************************************************************************)
EXTENDS Integers, Sequences, FiniteSets, TLC

VARIABLES
  phase,       \* "loaded": assets loaded, create() not yet run; "running"
  map,         \* game.map: width, height, tile size, tileset, Below Player layer
  worldLayer,  \* game.worldLayer: the dynamic "World" layer, cell -> tile
  finder,      \* game.finder: grid, acceptable tiles, tile costs, avoided points
  player,      \* player.x, player.y in world pixels
  marker,      \* game.marker: x, y in world pixels and visibility
  pending,     \* path results whose callback has been scheduled, oldest first
  timelines,   \* tween timelines driving the player, each the tweens left to play
  uncaught     \* TRUE when the last handleClick ended in an uncaught TypeError

vars == <<phase, map, worldLayer, finder, player, marker, pending, timelines,
          uncaught>>

----------------------------------------------------------------------------
(* Bounds of the model.                                                    *)

\* path results whose callback has not run yet, at most
MaxPending == 1

\* timelines playing or about to be started, at most
MaxTimelines == 2

\* colliding World tiles laid on a ground of the planner's maps, at most
MaxObstacles == 2

----------------------------------------------------------------------------
(* Tiles, tilesets and layers.                                             *)

\* Math.floor(.../32) in handleClick; the tile size of the map
TileSize == 32

\* the tile index changeTile places
MarkerTile == 2

\* duration of every tween moveCharacter creates
TweenDuration == 200

Cell(x, y) == [x |-> x, y |-> y]

\* the per-tile properties entered in Tiled: declared = the tileset lists the
\* tile at all; cost 0 = no cost property
Props(declared, collides, cost) ==
  [declared |-> declared, collides |-> collides, cost |-> cost]

NoProps == Props(FALSE, FALSE, 0)

\* a tile object of a layer; NullTile stands for null (no tile at the cell)
Tile(index, properties) ==
  [index |-> index, properties |-> properties, collides |-> FALSE]

NullTile == [index |-> -1, properties |-> NoProps, collides |-> FALSE]

Cells(w, h) == { Cell(x, y) : x \in 0..(w - 1), y \in 0..(h - 1) }

InBounds(m, c) ==
  /\ c.x >= 0 /\ c.x < m.width
  /\ c.y >= 0 /\ c.y < m.height

\* the tileset of the sample maps: local tile id -> declared properties.
\*   id 0 (index 1): no entry          id 1 (index 2): collides
\*   id 2 (index 3): cost 5            id 3 (index 4): collides = false
\*   id 4 (index 5): collides, cost 5  id 5 (index 6): empty property list
SampleTileProperties ==
  <<NoProps, Props(TRUE, TRUE, 0), Props(TRUE, FALSE, 5),
    Props(TRUE, FALSE, 0), Props(TRUE, TRUE, 5), Props(TRUE, FALSE, 0)>>

SampleTileset ==
  [firstgid |-> 1, total |-> Len(SampleTileProperties),
   tileProperties |->
     [i \in 0..(Len(SampleTileProperties) - 1) |-> SampleTileProperties[i + 1]]]

\* a second tileset: index 1 costs 2, index 2 collides, index 3 has no entry
OtherTileProperties ==
  <<Props(TRUE, FALSE, 2), Props(TRUE, TRUE, 0), NoProps>>

OtherTileset ==
  [firstgid |-> 1, total |-> Len(OtherTileProperties),
   tileProperties |->
     [i \in 0..(Len(OtherTileProperties) - 1) |-> OtherTileProperties[i + 1]]]

\* properties of the tile with the given index, as the loader attaches them
TilePropertiesOf(ts, index) ==
  IF (index - ts.firstgid) \in DOMAIN ts.tileProperties
  THEN LET p == ts.tileProperties[index - ts.firstgid]
       IN  IF p.declared THEN p ELSE NoProps
  ELSE NoProps

\* a layer from rows of tile indices as in the map's JSON; 0 = no tile
LayerOf(ts, rows) ==
  [c \in Cells(Len(rows[1]), Len(rows)) |->
     LET index == rows[c.y + 1][c.x + 1]
     IN  IF index = 0 THEN NullTile
         ELSE Tile(index, TilePropertiesOf(ts, index))]

\* World tiles whose collides property is true collide from the start
SetCollisionByProperty(layer) ==
  [c \in DOMAIN layer |->
     IF layer[c] # NullTile /\ layer[c].properties.collides
     THEN [layer[c] EXCEPT !.collides = TRUE]
     ELSE layer[c]]

\* a loaded map: Below Player rows, World rows, spawn point in pixels
LoadedMap(ts, below, world, spawn) ==
  [width |-> Len(below[1]), height |-> Len(below),
   tileWidth |-> TileSize, tileHeight |-> TileSize,
   tileset |-> ts,
   below |-> LayerOf(ts, below),
   world |-> LayerOf(ts, world),
   spawnPoint |-> spawn]

\* map.getTileAt(x, y, false, layer): null outside the layer
GetTileAt(layer, c) ==
  IF c \in DOMAIN layer THEN layer[c] ELSE NullTile

\* map.worldToTileX / map.worldToTileY: rounds down to the tile
WorldToTileX(m, px) == px \div m.tileWidth

WorldToTileY(m, px) == px \div m.tileHeight

\* map.tileToWorldX / map.tileToWorldY
TileToWorldX(m, t) == t * m.tileWidth

TileToWorldY(m, t) == t * m.tileHeight

\* worldLayer.putTileAtWorldXY(index, x, y): the layer with the tile's index
\* replaced (a new tile where there was none) and the tile, or the layer
\* unchanged and null when the position is outside the layer
PutTileAtWorldXY(m, layer, index, px, py) ==
  LET c == Cell(WorldToTileX(m, px), WorldToTileY(m, py))
  IN  IF c \notin DOMAIN layer
      THEN [layer |-> layer, tile |-> NullTile, cell |-> c]
      ELSE LET t == IF layer[c] = NullTile THEN Tile(index, NoProps)
                    ELSE [layer[c] EXCEPT !.index = index]
           IN  [layer |-> [layer EXCEPT ![c] = t], tile |-> t, cell |-> c]

----------------------------------------------------------------------------
(* The path finder behind game.finder (modelled from the specification,    *)
(* sections 4.1, 4.2 and 5).                                               *)

\* new EasyStar.js(): no grid, nothing acceptable, no costs, nothing avoided
NewFinder ==
  [grid |-> <<>>, acceptableTiles |-> <<>>, costs |-> <<>>,
   pointsToAvoid |-> {}]

SetGrid(f, grid) == [f EXCEPT !.grid = grid]

SetAcceptableTiles(f, tiles) == [f EXCEPT !.acceptableTiles = tiles]

SetTileCost(f, tile, cost) ==
  [f EXCEPT !.costs = (tile :> cost) @@ f.costs]

\* markBlocked: the cell is avoided from now on; idempotent
AvoidAdditionalPoint(f, x, y) ==
  IF Cell(x, y) \in DOMAIN f.grid
  THEN [f EXCEPT !.pointsToAvoid = @ \cup {Cell(x, y)}]
  ELSE f

IsAcceptable(f, tile) ==
  \E i \in DOMAIN f.acceptableTiles : f.acceptableTiles[i] = tile

\* isWalkable: in bounds, an acceptable tile, not marked blocked
IsWalkable(f, c) ==
  /\ c \in DOMAIN f.grid
  /\ IsAcceptable(f, f.grid[c])
  /\ c \notin f.pointsToAvoid

\* the registered cost of a tile, 1 by default
TileCost(f, tile) ==
  IF tile \in DOMAIN f.costs THEN f.costs[tile] ELSE 1

\* costOf: the cost of the cell's tile
CostOf(f, c) == TileCost(f, f.grid[c])

\* the result handed to the callback: a path of cells, or null
NotFound == [isNull |-> TRUE, cells |-> <<>>]

Found(cells) == [isNull |-> FALSE, cells |-> cells]

\* fixed neighbour order N, E, S, W
Neighbours(c) ==
  <<Cell(c.x, c.y - 1), Cell(c.x + 1, c.y), Cell(c.x, c.y + 1), Cell(c.x - 1, c.y)>>

\* the edge from node into n: n is discovered, or reached more cheaply
Relax(f, st, node, n) ==
  IF ~IsWalkable(f, n) \/ n \in st.closed THEN st
  ELSE LET d == st.g[node] + CostOf(f, n)
       IN  IF st.g[n] < 0
           THEN [st EXCEPT !.g[n] = d, !.parent[n] = node,
                           !.open = Append(@, n)]
           ELSE IF d < st.g[n]
           THEN [st EXCEPT !.g[n] = d, !.parent[n] = node]
           ELSE st

\* the open cell expanded next: least cost so far; the one discovered first on a tie
NextOpen(st) ==
  CHOOSE k \in DOMAIN st.open :
    /\ \A j \in DOMAIN st.open : st.g[st.open[k]] <= st.g[st.open[j]]
    /\ \A j \in 1..(k - 1) : st.g[st.open[j]] > st.g[st.open[k]]

RemoveAt(s, k) == [i \in 1..(Len(s) - 1) |-> IF i < k THEN s[i] ELSE s[i + 1]]

RECURSIVE PathTo(_, _, _)
PathTo(parent, start, node) ==
  IF node = start THEN <<start>>
  ELSE Append(PathTo(parent, start, parent[node]), node)

\* uniform-cost search over the 4-connected walkable cells
RECURSIVE Search(_, _, _, _)
Search(f, start, goal, st) ==
  IF st.open = <<>> THEN NotFound
  ELSE LET k    == NextOpen(st)
           node == st.open[k]
           nb   == Neighbours(node)
           s0   == [st EXCEPT !.open = RemoveAt(@, k),
                              !.closed = @ \cup {node}]
       IN  IF node = goal THEN Found(PathTo(st.parent, start, node))
           ELSE Search(f, start, goal,
                  Relax(f, Relax(f, Relax(f, Relax(f, s0, node, nb[1]),
                                          node, nb[2]), node, nb[3]),
                        node, nb[4]))

\* the search of a request: it runs on the finder as it is now
FindPath(f, start, goal) ==
  IF ~IsWalkable(f, start) \/ ~IsWalkable(f, goal) THEN NotFound
  ELSE Search(f, start, goal,
         [open |-> <<start>>, closed |-> {},
          g |-> [c \in DOMAIN f.grid |-> IF c = start THEN 0 ELSE -1],
          parent |-> [c \in DOMAIN f.grid |-> c]])

\* finder.findPath(...) followed by finder.calculate(): the request with its
\* result, whose callback runs later
Calculate(f, start, goal) ==
  [start |-> start, goal |-> goal, path |-> FindPath(f, start, goal)]

----------------------------------------------------------------------------
(* The scene: map-game.js.                                                 *)

\* game.checkCollision
checkCollision(layer, x, y) ==
  LET tile == GetTileAt(layer, Cell(x, y))
  IN  IF tile = NullTile THEN FALSE
      ELSE tile.properties.collides = TRUE

\* getTileID without the World layer: the Below Player tile's index always
getTileID_BelowOnly(m, layer, x, y) ==
  GetTileAt(m.below, Cell(x, y)).index

\* game.getTileID: the World tile's index, the Below Player tile's otherwise
getTileID(m, layer, x, y) ==
  LET tile == GetTileAt(layer, Cell(x, y))
  IN  IF tile = NullTile THEN GetTileAt(m.below, Cell(x, y)).index
      ELSE tile.index

\* create(), the grid: every cell's tile ID
GridOf(m, layer) ==
  [c \in Cells(m.width, m.height) |-> getTileID(m, layer, c.x, c.y)]

\* the loop without the collides test: every declared tile is collected
RECURSIVE ClassifyTiles_AcceptAll(_, _, _, _)
ClassifyTiles_AcceptAll(ts, i, acceptableTiles, f) ==
  IF ~(i < ts.total) THEN SetAcceptableTiles(f, acceptableTiles)
  ELSE LET p == ts.tileProperties[i]
       IN  IF ~p.declared
           THEN ClassifyTiles_AcceptAll(ts, i + 1,
                  Append(acceptableTiles, i + 1), f)
           ELSE ClassifyTiles_AcceptAll(ts, i + 1,
                  Append(acceptableTiles, i + 1),
                  IF p.cost # 0 THEN SetTileCost(f, i + 1, p.cost) ELSE f)

\* the loop registering a cost under i instead of i + 1
RECURSIVE ClassifyTiles_CostUnderI(_, _, _, _)
ClassifyTiles_CostUnderI(ts, i, acceptableTiles, f) ==
  IF ~(i < ts.total) THEN SetAcceptableTiles(f, acceptableTiles)
  ELSE LET p == ts.tileProperties[i]
       IN  IF ~p.declared
           THEN ClassifyTiles_CostUnderI(ts, i + 1,
                  Append(acceptableTiles, i + 1), f)
           ELSE ClassifyTiles_CostUnderI(ts, i + 1,
                  IF ~p.collides THEN Append(acceptableTiles, i + 1)
                  ELSE acceptableTiles,
                  IF p.cost # 0 THEN SetTileCost(f, i, p.cost) ELSE f)

\* create(), the loop over the tileset: the walkable tile IDs are collected and
\* the declared costs are registered with the finder
RECURSIVE ClassifyTiles(_, _, _, _)
ClassifyTiles(ts, i, acceptableTiles, f) ==
  IF ~(i < ts.total) THEN SetAcceptableTiles(f, acceptableTiles)
  ELSE LET p == ts.tileProperties[i]
       IN  IF ~p.declared
           THEN ClassifyTiles(ts, i + 1, Append(acceptableTiles, i + 1), f)
           ELSE ClassifyTiles(ts, i + 1,
                  IF ~p.collides THEN Append(acceptableTiles, i + 1)
                  ELSE acceptableTiles,
                  IF p.cost # 0 THEN SetTileCost(f, i + 1, p.cost) ELSE f)

\* the loop reading path[i] instead of path[i + 1]: the start cell gets a tween
RECURSIVE TweensOf_FromStart(_, _, _)
TweensOf_FromStart(m, path, i) ==
  IF ~(i < Len(path) - 1) THEN <<>>
  ELSE LET ex == path[i + 1].x
           ey == path[i + 1].y
       IN  <<[targets |-> "player",
              x |-> [value |-> ex * m.tileWidth, duration |-> TweenDuration],
              y |-> [value |-> ey * m.tileHeight, duration |-> TweenDuration]]>>
           \o TweensOf_FromStart(m, path, i + 1)

\* game.moveCharacter, the loop: one tween for each cell of the path after the first
RECURSIVE TweensOf(_, _, _)
TweensOf(m, path, i) ==
  IF ~(i < Len(path) - 1) THEN <<>>
  ELSE LET ex == path[i + 2].x
           ey == path[i + 2].y
       IN  <<[targets |-> "player",
              x |-> [value |-> ex * m.tileWidth, duration |-> TweenDuration],
              y |-> [value |-> ey * m.tileHeight, duration |-> TweenDuration]]>>
           \o TweensOf(m, path, i + 1)

\* game.moveCharacter: a new timeline of the tweens is started
moveCharacter(m, tls, path) == Append(tls, TweensOf(m, path, 0))

\* changeTile without the call of avoidAdditionalPoint
changeTile_NoAvoid(m, layer, f, mk) ==
  LET put == PutTileAtWorldXY(m, layer, MarkerTile, mk.x, mk.y)
  IN  IF put.tile = NullTile
      THEN [layer |-> put.layer, finder |-> f, threw |-> TRUE]
      ELSE [layer |-> [put.layer EXCEPT ![put.cell].collides = TRUE],
            finder |-> f,
            threw |-> FALSE]

\* changeTile that does nothing while the marker is hidden
changeTile_VisibleOnly(m, layer, f, mk) ==
  LET put == PutTileAtWorldXY(m, layer, MarkerTile, mk.x, mk.y)
  IN  IF ~mk.visible
      THEN [layer |-> layer, finder |-> f, threw |-> FALSE]
      ELSE IF put.tile = NullTile
      THEN [layer |-> put.layer, finder |-> f, threw |-> TRUE]
      ELSE [layer |-> [put.layer EXCEPT ![put.cell].collides = TRUE],
            finder |-> AvoidAdditionalPoint(f, WorldToTileX(m, mk.x),
                                            WorldToTileY(m, mk.y)),
            threw |-> FALSE]

\* game.changeTile: the marker tile is put at the marker and made colliding, and
\* the finder is told to avoid the cell; a null tile ends it in a TypeError
changeTile(m, layer, f, mk) ==
  LET put == PutTileAtWorldXY(m, layer, MarkerTile, mk.x, mk.y)
  IN  IF put.tile = NullTile
      THEN [layer |-> put.layer, finder |-> f, threw |-> TRUE]
      ELSE [layer |-> [put.layer EXCEPT ![put.cell].collides = TRUE],
            finder |-> AvoidAdditionalPoint(f, WorldToTileX(m, mk.x),
                                            WorldToTileY(m, mk.y)),
            threw |-> FALSE]

----------------------------------------------------------------------------------------------------------------------------------------
(* The maps the scene is started on.                                       *)

\* 2 x 2: a costly tile at (1,0), World tiles at (0,1), which does not collide,
\* and at (1,1), which does
MapSmall ==
  LoadedMap(SampleTileset, << <<1, 3>>, <<1, 1>> >>,
            << <<0, 0>>, <<4, 2>> >>, [x |-> 16, y |-> 24])

\* 3 x 1: a corridor with a colliding World tile at its end, the spawn point
\* in the middle
MapCorridor ==
  LoadedMap(OtherTileset, << <<3, 1, 3>> >>,
            << <<0, 0, 2>> >>, [x |-> 40, y |-> 8])

\* the maps of the full game
SampleMaps == {MapCorridor}

\* the grounds of the planner's maps, 3 x 2: all open, and with costly tiles
OpenGround == << <<1, 1, 1>>, <<1, 1, 1>> >>

CostGround == << <<1, 3, 1>>, <<1, 1, 3>> >>

\* World rows with a colliding tile on each cell of S and no tile elsewhere
ObstacleRows(ground, S) ==
  [y \in 1..Len(ground) |->
     [x \in 1..Len(ground[1]) |->
        IF Cell(x - 1, y - 1) \in S THEN MarkerTile ELSE 0]]

SpawnIn(c) == [x |-> c.x * TileSize + 16, y |-> c.y * TileSize + 24]

\* the example grid: 5 x 5, column 2 blocked in rows 0 to 3, spawn in (0,0)
MapExample ==
  LoadedMap(SampleTileset,
            << <<1, 1, 1, 1, 1>>, <<1, 1, 1, 1, 1>>, <<1, 1, 1, 1, 1>>,
               <<1, 1, 1, 1, 1>>, <<1, 1, 1, 1, 1>> >>,
            << <<0, 0, 2, 0, 0>>, <<0, 0, 2, 0, 0>>, <<0, 0, 2, 0, 0>>,
               <<0, 0, 2, 0, 0>>, <<0, 0, 0, 0, 0>> >>,
            SpawnIn(Cell(0, 0)))

\* every ground with up to MaxObstacles obstacles and the spawn point in any
\* cell, and the two maps above
PlannerMaps ==
  { LoadedMap(SampleTileset, ground, ObstacleRows(ground, S), SpawnIn(c)) :
      ground \in {OpenGround, CostGround},
      S \in { T \in SUBSET Cells(Len(OpenGround[1]), Len(OpenGround)) :
                Cardinality(T) <= MaxObstacles },
      c \in Cells(Len(OpenGround[1]), Len(OpenGround)) }
  \cup {MapSmall, MapCorridor}

\* where the pointer can be, in world pixels: over each tile, off the map to
\* the left and off the map below
PointerPoints(m) ==
  { [x |-> TileToWorldX(m, c.x) + 16, y |-> TileToWorldY(m, c.y) + 16] :
      c \in Cells(m.width, m.height) }
  \cup { [x |-> -16, y |-> 16], [x |-> 16, y |-> TileToWorldY(m, m.height) + 16] }

----------------
(* The state machine.                                                      *)

\* the game object is constructed and the assets are loaded: one of the maps
InitOn(maps) ==
  /\ phase = "loaded"
  /\ map \in maps
  /\ worldLayer = map.world
  /\ finder = NewFinder
  /\ player = [x |-> 0, y |-> 0]
  /\ marker = [x |-> 0, y |-> 0, visible |-> TRUE]
  /\ pending = <<>>
  /\ timelines = <<>>
  /\ uncaught = FALSE

Init == InitOn(SampleMaps)

\* create(): layers, player at the spawn point, marker, finder
Create ==
  /\ phase = "loaded"
  /\ phase' = "running"
  /\ worldLayer' = SetCollisionByProperty(worldLayer)
  /\ player' = [x |-> map.spawnPoint.x, y |-> map.spawnPoint.y]
  /\ marker' = [x |-> 0, y |-> 0, visible |-> TRUE]
  /\ finder' = ClassifyTiles(map.tileset, map.tileset.firstgid - 1, <<>>,
                             SetGrid(NewFinder, GridOf(map, worldLayer)))
  /\ UNCHANGED <<map, pending, timelines, uncaught>>

\* update(), the marker: it follows the pointer, tile by tile, and is hidden
\* over a World tile whose collides property is true
Update(wx, wy) ==
  /\ phase = "running"
  /\ LET pointerTileX == WorldToTileX(map, wx)
         pointerTileY == WorldToTileY(map, wy)
     IN  marker' = [x |-> TileToWorldX(map, pointerTileX),
                    y |-> TileToWorldY(map, pointerTileY),
                    visible |-> ~checkCollision(worldLayer, pointerTileX,
                                                pointerTileY)]
  /\ UNCHANGED <<phase, map, worldLayer, finder, player, pending, timelines,
                 uncaught>>

\* handleClick with changeTile called before the search
handleClick_ChangeFirst(x, y) ==
  /\ phase = "running"
  /\ Len(pending) < MaxPending
  /\ Len(pending) + Len(timelines) < MaxTimelines
  /\ LET toX   == x \div TileSize
         toY   == y \div TileSize
         fromX == player.x \div TileSize
         fromY == player.y \div TileSize
         ct    == changeTile(map, worldLayer, finder, marker)
         found == Calculate(ct.finder, Cell(fromX, fromY), Cell(toX, toY))
     IN  /\ pending' = Append(pending, found)
         /\ worldLayer' = ct.layer
         /\ finder' = ct.finder
         /\ uncaught' = ct.threw
  /\ UNCHANGED <<phase, map, player, marker, timelines>>

\* game.handleClick: x, y are the pointer's world coordinates (camera scroll
\* plus pointer position).  The path is searched, its callback scheduled, and
\* then the tile under the marker is changed.
handleClick(x, y) ==
  /\ phase = "running"
  /\ Len(pending) < MaxPending
  /\ Len(pending) + Len(timelines) < MaxTimelines
  /\ LET toX   == x \div TileSize
         toY   == y \div TileSize
         fromX == player.x \div TileSize
         fromY == player.y \div TileSize
         found == Calculate(finder, Cell(fromX, fromY), Cell(toX, toY))
         ct    == changeTile(map, worldLayer, finder, marker)
     IN  /\ pending' = Append(pending, found)
         /\ worldLayer' = ct.layer
         /\ finder' = ct.finder
         /\ uncaught' = ct.threw
  /\ UNCHANGED <<phase, map, player, marker, timelines>>

\* the callback without the test for null: moveCharacter always
PathCallback_AlwaysMove ==
  /\ pending # <<>>
  /\ pending' = Tail(pending)
  /\ timelines' = moveCharacter(map, timelines, Head(pending).path.cells)
  /\ UNCHANGED <<phase, map, worldLayer, finder, player, marker, uncaught>>

\* the callback given to findPath runs: a warning for null, moveCharacter otherwise
PathCallback ==
  /\ pending # <<>>
  /\ pending' = Tail(pending)
  /\ timelines' = IF Head(pending).path.isNull THEN timelines
                  ELSE moveCharacter(map, timelines, Head(pending).path.cells)
  /\ UNCHANGED <<phase, map, worldLayer, finder, player, marker, uncaught>>

\* the i-th timeline plays its next tween to the end; a timeline with nothing
\* left is complete and gone
PlayTween(i) ==
  /\ i \in DOMAIN timelines
  /\ LET tl == timelines[i]
     IN  /\ player' = IF tl = <<>> THEN player
                      ELSE [x |-> Head(tl).x.value, y |-> Head(tl).y.value]
         /\ timelines' = IF Len(tl) <= 1 THEN RemoveAt(timelines, i)
                         ELSE [timelines EXCEPT ![i] = Tail(tl)]
  /\ UNCHANGED <<phase, map, worldLayer, finder, marker, pending, uncaught>>

Next ==
  \/ Create
  \/ \E p \in PointerPoints(map) : Update(p.x, p.y)
  \/ \E p \in PointerPoints(map) : handleClick(p.x, p.y)
  \/ PathCallback
  \/ \E i \in 1..MaxTimelines : PlayTween(i)

Spec == Init /\ [][Next]_vars

(* The planner on its own: a single request on a map of the given set.     *)

\* nothing requested yet
NoRequestYet ==
  /\ pending = <<>>
  /\ timelines = <<>>
  /\ finder.pointsToAvoid = {}
  /\ ~uncaught

NextPlanner ==
  \/ Create
  \/ NoRequestYet /\ \E p \in PointerPoints(map) : Update(p.x, p.y)
  \/ NoRequestYet /\ \E p \in PointerPoints(map) : handleClick(p.x, p.y)
  \/ PathCallback
  \/ \E i \in 1..MaxTimelines : PlayTween(i)

InitPlanner == InitOn(PlannerMaps)

SpecPlanner == InitPlanner /\ [][NextPlanner]_vars

InitExample == InitOn({MapExample})

SpecExample == InitExample /\ [][NextPlanner]_vars

----------------------------------------------------------------------------
(* Vocabulary of the properties.                                           *)

MarkerCell == Cell(WorldToTileX(map, marker.x), WorldToTileY(map, marker.y))

PlayerCell == Cell(player.x \div TileSize, player.y \div TileSize)

GridCells == Cells(map.width, map.height)

\* a step of handleClick: the only step that schedules a callback
ClickStep == Len(pending') = Len(pending) + 1

\* the request that step scheduled
Requested == pending'[Len(pending')]

\* a step of the path callback: the only step that takes one off
CallbackStep == Len(pending') = Len(pending) - 1

Adjacent(a, b) ==
  \/ a.x = b.x /\ (a.y = b.y + 1 \/ b.y = a.y + 1)
  \/ a.y = b.y /\ (a.x = b.x + 1 \/ b.x = a.x + 1)

\* the classification rule for a tile index, stated on the declared properties
RuleWalkable(ts, index) ==
  LET p == ts.tileProperties[index - ts.firstgid]
  IN  IF ~p.declared THEN TRUE ELSE ~(p.collides = TRUE)

RuleCost(ts, index) ==
  LET p == ts.tileProperties[index - ts.firstgid]
  IN  IF p.declared /\ p.cost # 0 THEN p.cost ELSE 1

\* the tile a grid cell stands for in the loaded map: World, else Below Player
LoadedTile(c) ==
  IF map.world[c] # NullTile THEN map.world[c] ELSE map.below[c]

\* a cell one may walk on when the cells of blocked have been marked blocked
Open(blocked, c) ==
  /\ c \in GridCells
  /\ RuleWalkable(map.tileset, LoadedTile(c).index)
  /\ c \notin blocked

\* the cells a walkable route leads to from the cells of S
RECURSIVE RouteTo(_, _)
RouteTo(blocked, S) ==
  LET T == S \cup { n \in GridCells :
                     Open(blocked, n) /\ \E c \in S : Adjacent(c, n) }
  IN  IF T = S THEN S ELSE RouteTo(blocked, T)

\* a walkable route connects start and goal
Connected(blocked, start, goal) ==
  /\ Open(blocked, start)
  /\ goal \in RouteTo(blocked, {start})

CellsOf(path) == { path.cells[i] : i \in DOMAIN path.cells }

RECURSIVE PathCost(_, _, _)
PathCost(f, cells, i) ==
  IF i > Len(cells) THEN 0
  ELSE CostOf(f, cells[i]) + PathCost(f, cells, i + 1)

----------------------------------------------------------------------------
(* Properties.                                                             *)

\* C1: for every grid and every start and goal joined by a walkable route, the
\* path handleClick gets from the finder is not null, begins with the start
\* cell, ends with the goal cell, steps between 4-adjacent cells only, and
\* every cell of it is walkable in the grid the search ran on.
C1_PathWellFormed ==
  [][ClickStep =>
       LET r == Requested
           p == r.path.cells
       IN  Connected(finder.pointsToAvoid, r.start, r.goal) =>
             /\ ~r.path.isNull
             /\ Len(p) >= 1
             /\ p[1] = r.start
             /\ p[Len(p)] = r.goal
             /\ \A i \in 1..(Len(p) - 1) : Adjacent(p[i], p[i + 1])
             /\ \A i \in DOMAIN p : Open(finder.pointsToAvoid, p[i])]_vars

\* a found path of four cells or more is waiting for its callback
C1_Witness ==
  \E i \in DOMAIN pending :
    /\ ~pending[i].path.isNull
    /\ Len(pending[i].path.cells) >= 4

C3_MarkBlocked ==
  [][(ClickStep /\ InBounds(map, MarkerCell)) =>
       \A s \in GridCells, g \in GridCells :
         LET before == FindPath(finder, s, g)
             after  == FindPath(finder', s, g)
         IN  /\ MarkerCell \notin CellsOf(after)
             /\ (~before.isNull /\ MarkerCell \notin CellsOf(before))
                  => after = before]_vars

\* the marker cell was marked blocked by a click whose path of three cells or
\* more avoids it
C3_Witness ==
  \E i \in DOMAIN pending :
    /\ ~pending[i].path.isNull
    /\ Len(pending[i].path.cells) >= 3
    /\ finder.pointsToAvoid = {MarkerCell}
    /\ MarkerCell \notin CellsOf(pending[i].path)

\* C4: moveCharacter turns a path of N cells into a timeline of N-1 tweens in
\* path order, the i-th to (path[i+1].x * tileWidth, path[i+1].y * tileHeight)
\* with duration 200; the start cell gets none, a one-cell path gets none.
C4_Waypoints ==
  [][(CallbackStep /\ ~Head(pending).path.isNull) =>
       LET p  == Head(pending).path.cells
           tw == timelines'[Len(timelines')]
       IN  /\ Len(timelines') = Len(timelines) + 1
           /\ Len(tw) = Len(p) - 1
           /\ \A i \in 1..Len(tw) :
                /\ tw[i].x = [value |-> p[i + 1].x * map.tileWidth,
                              duration |-> 200]
                /\ tw[i].y = [value |-> p[i + 1].y * map.tileHeight,
                              duration |-> 200]]_vars

\* a timeline of two tweens or more has been started
C4_Witness ==
  \E i \in DOMAIN timelines : Len(timelines[i]) >= 2

\* the request of the example: the 5 x 5 grid, from (0,0) to (4,0)
ExampleRequest(r) ==
  /\ map = MapExample
  /\ r.start = Cell(0, 0)
  /\ r.goal = Cell(4, 0)

\* C5 as stated: on the example grid the path from (0,0) to (4,0) has length 6,
\* goes around the blocked column through row 4 and costs 6.
C5_AsStated ==
  \A i \in DOMAIN pending :
    ExampleRequest(pending[i]) =>
      /\ ~pending[i].path.isNull
      /\ Len(pending[i].path.cells) = 6
      /\ \E c \in CellsOf(pending[i].path) : c.y = 4
      /\ PathCost(finder, pending[i].path.cells, 2) = 6

\* C5, amended: on the example grid the path from (0,0) to (4,0) has 13 cells
\* (12 moves), goes around the blocked column through row 4 and costs 12.
C5_Example ==
  \A i \in DOMAIN pending :
    ExampleRequest(pending[i]) =>
      /\ ~pending[i].path.isNull
      /\ Len(pending[i].path.cells) = 13
      /\ \E c \in CellsOf(pending[i].path) : c.x = 2 /\ c.y = 4
      /\ PathCost(finder, pending[i].path.cells, 2) = 12

\* the example's request has been made
C5_Witness ==
  \E i \in DOMAIN pending : ExampleRequest(pending[i])

\* C6: at most one timeline with tweens left is driving the player.
C6_OneTimeline ==
  Cardinality({ i \in DOMAIN timelines : timelines[i] # <<>> }) <= 1

\* C7: within a click the search comes first, then changeTile, and the
\* timeline later: the cell this click's changeTile blocks still counts as
\* walkable in this click's search, the cells blocked by earlier clicks do
\* not, and no timeline is started before the tile is changed.
C7_SearchThenChange ==
  [][ClickStep =>
       LET r == Requested
       IN  /\ (MarkerCell = r.goal
                /\ Connected(finder.pointsToAvoid, r.start, r.goal))
                => (~r.path.isNull /\ MarkerCell \in CellsOf(r.path))
           /\ CellsOf(r.path) \cap finder.pointsToAvoid = {}
           /\ InBounds(map, MarkerCell) => MarkerCell \in finder'.pointsToAvoid
           /\ timelines' = timelines]_vars

\* a later click found a path to the marker cell, which is now blocked, as is
\* a cell an earlier click blocked
C7_Witness ==
  \E i \in DOMAIN pending :
    /\ ~pending[i].path.isNull
    /\ Len(pending[i].path.cells) >= 2
    /\ pending[i].goal = MarkerCell
    /\ MarkerCell \in finder.pointsToAvoid
    /\ Cardinality(finder.pointsToAvoid) >= 2

\* C8: after create(), a tile index is acceptable exactly when the rule makes
\* it walkable (no declared properties, or collides not true), the cost of a
\* walkable index is its declared cost, 1 without one, and every grid cell
\* holds the index of its World tile, of its Below Player tile without one.
C8_Classification ==
  phase = "running" =>
    /\ \A index \in map.tileset.firstgid ..
                     (map.tileset.firstgid + map.tileset.total - 1) :
         /\ IsAcceptable(finder, index) <=> RuleWalkable(map.tileset, index)
         /\ RuleWalkable(map.tileset, index)
              => TileCost(finder, index) = RuleCost(map.tileset, index)
    /\ \A c \in GridCells : finder.grid[c] = LoadedTile(c).index

\* create() has run on a map with World tiles on some cells and none on others
C8_Witness ==
  /\ phase = "running"
  /\ \E c \in GridCells : map.world[c] # NullTile
  /\ \E c \in GridCells : map.world[c] = NullTile

\* C9: changeTile with the marker outside the grid raises no error and leaves
\* the tile layer and the finder's blocked cells as they were.
C9_SilentNoOp ==
  [][(ClickStep /\ ~InBounds(map, MarkerCell)) =>
       /\ ~uncaught'
       /\ worldLayer' = worldLayer
       /\ finder'.pointsToAvoid = finder.pointsToAvoid]_vars

\* a tween that ends a timeline is played in this step
LastTweenStep(i) ==
  /\ i \in DOMAIN timelines
  /\ Len(timelines[i]) = 1
  /\ Len(timelines') = Len(timelines) - 1
  /\ pending' = pending
  /\ player' = [x |-> timelines[i][1].x.value, y |-> timelines[i][1].y.value]

\* what C10 says of a click whose marker cell is the goal of a found path: the
\* path's last cell is blocked when handleClick is over, and a request that
\* starts there finds nothing
GoalBlocked ==
  LET r == Requested
  IN  (MarkerCell = r.goal /\ ~r.path.isNull) =>
        /\ r.path.cells[Len(r.path.cells)] \in finder'.pointsToAvoid
        /\ \A g \in GridCells : FindPath(finder', r.goal, g).isNull

\* the player stands on the cell a timeline's last tween leads to
StandsOnTarget ==
  \A i \in DOMAIN timelines :
    LastTweenStep(i) =>
      (player'.x \div TileSize) * map.tileWidth = timelines[i][1].x.value
      /\ (player'.y \div TileSize) * map.tileHeight = timelines[i][1].y.value

====
